---- MODULE Spec2Model ----
(***************************************************************************)
(* Model of the expense tracker server in main.py: the transaction-text    *)
(* parser (parse_transaction, detect_bank_sender,                          *)
(* get_category_from_merchant, categorize_transaction), the expense store  *)
(* handlers (add_expense, update_expense, delete_expense) and              *)
(* register_user.                                                          *)
(*                                                                         *)
(* Python strings are TLA+ strings (sequences of characters).  An optional *)
(* argument (a value that may be None) is a sequence of length at most     *)
(* one: <<>> is None and <<s>> is the string s.  A confidence is kept in   *)
(* hundredths (0.95 is 95), so that it stays an integer.                   *)
(***************************************************************************)
EXTENDS Integers, Sequences, FiniteSets, TLC

VARIABLES
    text, sender, parsed, categorized,     \* one parse_transaction / categorize_transaction call
    snd_in, snd_out,                       \* one detect_bank_sender call
    merchant_in, category_out,             \* one get_category_from_merchant call
    expenses, next_id, calls,              \* mongo_expenses and the handlers running on it
    users, regs                            \* mongo_users and the register_user calls

parseVars    == <<text, sender, parsed, categorized>>
senderVars   == <<snd_in, snd_out>>
categoryVars == <<merchant_in, category_out>>
storeVars    == <<expenses, next_id, calls>>
userVars     == <<users, regs>>
vars == <<text, sender, parsed, categorized, snd_in, snd_out,
          merchant_in, category_out, expenses, next_id, calls, users, regs>>

-----------------------------------------------------------------------------
(* Strings *)

None == <<>>
Some(s) == <<s>>

\* Python's `x or ""` for an optional string x.
OrEmpty(o) == IF o = None THEN "" ELSE o[1]

Char(s, i) == SubSeq(s, i, i)

LowerAlpha == "abcdefghijklmnopqrstuvwxyz"
UpperAlpha == "ABCDEFGHIJKLMNOPQRSTUVWXYZ"
DigitChars == "0123456789"

\* The set of the characters of s.
CharsOf(s) == {Char(s, i) : i \in 1..Len(s)}

LowerLetters == CharsOf(LowerAlpha)
UpperLetters == CharsOf(UpperAlpha)
Digits       == CharsOf(DigitChars)
Whitespace   == {" ", "\n", "\t", "\r"}

AlphaIndex(c, alpha) == CHOOSE i \in 1..Len(alpha) : Char(alpha, i) = c

UpperChar(c) == IF c \in LowerLetters THEN Char(UpperAlpha, AlphaIndex(c, LowerAlpha)) ELSE c
LowerChar(c) == IF c \in UpperLetters THEN Char(LowerAlpha, AlphaIndex(c, UpperAlpha)) ELSE c

RECURSIVE Upper(_)
Upper(s) == IF s = "" THEN "" ELSE UpperChar(Head(s)) \o Upper(Tail(s))

RECURSIVE Lower(_)
Lower(s) == IF s = "" THEN "" ELSE LowerChar(Head(s)) \o Lower(Tail(s))

\* Python's `k in s` for strings: k occurs in s as a substring.
Contains(s, k) == \E i \in 0..(Len(s) - Len(k)) : SubSeq(s, i + 1, i + Len(k)) = k

\* Python's str.strip(): leading and trailing whitespace removed.
RECURSIVE LStrip(_)
LStrip(s) == IF s # "" /\ Head(s) \in Whitespace THEN LStrip(Tail(s)) ELSE s

RECURSIVE RStrip(_)
RStrip(s) ==
    IF s # "" /\ Char(s, Len(s)) \in Whitespace THEN RStrip(SubSeq(s, 1, Len(s) - 1)) ELSE s

Strip(s) == RStrip(LStrip(s))

\* The number of leading characters of s, from position i on, that are in cls.
RECURSIVE RunLen(_, _, _)
RunLen(s, i, cls) ==
    IF i <= Len(s) /\ Char(s, i) \in cls THEN 1 + RunLen(s, i + 1, cls) ELSE 0

\* Python's `$` (no MULTILINE) at position i of s: the end of the string, or
\* just before a newline that is the last character.
AtDollar(s, i) == i = Len(s) + 1 \/ (i = Len(s) /\ Char(s, i) = "\n")

\* re.match(r"^[cls]{lo,hi}$", s)
MatchWholeRun(s, cls, lo, hi) ==
    LET n == RunLen(s, 1, cls)
    IN  \E k \in lo..hi : k <= n /\ AtDollar(s, k + 1)

-----------------------------------------------------------------------------
(* Sender Classifier *)

bank_keywords ==
    <<"KBL", "KARNATAKA", "SBI", "HDFC", "ICICI", "AXIS", "PNB", "YESBANK", "IDFC",
      "KOTAK", "CANARA", "BANK", "BNK", "PAYTM", "PHONEPE", "GOOGLEPAY", "GPAISA",
      "NBUPAISA">>

Verdict(b, c) == [is_bank |-> b, confidence |-> c]

\* A plausible slip: the shape heuristics tried before the keyword list.
detect_bank_sender_shape_first(sndr) ==
    IF sndr = None \/ sndr = Some("") THEN Verdict(FALSE, 30)
    ELSE LET su == Upper(sndr[1])
         IN  IF MatchWholeRun(su, UpperLetters, 3, 15) THEN Verdict(TRUE, 90)
             ELSE IF MatchWholeRun(su, Digits, 3, 6) THEN Verdict(TRUE, 80)
             ELSE IF \E k \in 1..Len(bank_keywords) : Contains(su, bank_keywords[k])
                  THEN Verdict(TRUE, 95)
             ELSE Verdict(FALSE, 30)

detect_bank_sender(sndr) ==
    IF sndr = None \/ sndr = Some("") THEN Verdict(FALSE, 30)
    ELSE LET su == Upper(sndr[1])
         IN  IF \E k \in 1..Len(bank_keywords) : Contains(su, bank_keywords[k])
                  THEN Verdict(TRUE, 95)
             ELSE IF MatchWholeRun(su, UpperLetters, 3, 15) THEN Verdict(TRUE, 90)
             ELSE IF MatchWholeRun(su, Digits, 3, 6) THEN Verdict(TRUE, 80)
             ELSE Verdict(FALSE, 30)

-----------------------------------------------------------------------------
(* Category Suggester *)

CategoryGroups ==
    << [category |-> "Transportation",
        keywords |-> <<"uber", "ola", "taxi", "cab", "fuel", "petrol", "metro", "bus">>],
       [category |-> "Food & Dining",
        keywords |-> <<"restaurant", "cafe", "dine", "bar", "hotel", "food", "zomato",
                       "swiggy">>],
       [category |-> "Shopping",
        keywords |-> <<"flipkart", "amazon", "myntra", "shop", "store", "super",
                       "grocery", "grocer", "mall">>],
       [category |-> "Entertainment",
        keywords |-> <<"netflix", "spotify", "movie", "cinema", "pvr", "inox">>],
       [category |-> "Healthcare",
        keywords |-> <<"hospital", "pharmacy", "doctor", "clinic", "medical", "health">>],
       [category |-> "Bills & Utilities",
        keywords |-> <<"electricity", "water", "gas", "internet", "mobile", "recharge">>] >>

\* any(k in mk for k in <the keywords of group g>)
AnyKeyword(mk, g) ==
    \E k \in 1..Len(CategoryGroups[g].keywords) : Contains(mk, CategoryGroups[g].keywords[k])

\* The if/elif chain of get_category_from_merchant from group g on.
RECURSIVE CategoryChain(_, _)
CategoryChain(mk, g) ==
    IF g > Len(CategoryGroups) THEN "Other"
    ELSE IF AnyKeyword(mk, g) THEN CategoryGroups[g].category
    ELSE CategoryChain(mk, g + 1)

\* A plausible slip: the keywords tested against the merchant as given.
get_category_from_merchant_case_sensitive(merchant) ==
    IF merchant = "" THEN "Other" ELSE CategoryChain(merchant, 1)

get_category_from_merchant(merchant) ==
    IF merchant = "" THEN "Other" ELSE CategoryChain(Lower(merchant), 1)

\* The categories resource's default list.
default_categories ==
    {"Food & Dining", "Transportation", "Shopping", "Entertainment", "Bills & Utilities",
     "Healthcare", "Travel", "Education", "Business", "Other"}

-----------------------------------------------------------------------------
(* Regular expressions of parse_transaction *)

\* The rupee sign, U+20B9.  The model checker keeps a character in one byte,
\* so the sign is written "$" here: a character that, like the sign, has no
\* case and is in no class of the patterns but the currency one, and that the
\* texts of the model use for nothing else.
Rupee == "$"

\* [<rupee>Rs.] : case-sensitive in the fallback rule, re.IGNORECASE in the others.
CurrencyChars   == {Rupee, "R", "s", "."}
CurrencyCharsIC == CurrencyChars \cup {"r", "S"}
\* [0-9,]
AmountChars     == Digits \cup {","}
\* [A-Za-z]
Letters         == LowerLetters \cup UpperLetters
\* [\w &.\-]
MerchantChars   == Letters \cup Digits \cup {"_", " ", "&", ".", "-"}

NoMatch == [ok |-> FALSE]

Min(S) == CHOOSE x \in S : \A y \in S : x <= y
Max(S) == CHOOSE x \in S : \A y \in S : x >= y

\* The literal lit stands at position i of t (letters compared without case).
LitAt(t, i, lit) ==
    /\ i + Len(lit) - 1 <= Len(t)
    /\ \A k \in 1..Len(lit) : LowerChar(Char(t, i + k - 1)) = LowerChar(Char(lit, k))

\* ([0-9,]+(?:\.[0-9]+)?) at position j: the position after the capture, 0
\* when there is none.  Both parts are greedy, and in every pattern the
\* capture is followed by a space or by nothing, so the longest capture is
\* the only one the match can use.
AmountEnd(t, j) ==
    LET n == RunLen(t, j, AmountChars)
        e == j + n
        d == IF e <= Len(t) /\ Char(t, e) = "." THEN RunLen(t, e + 1, Digits) ELSE 0
    IN  IF n = 0 THEN 0 ELSE IF d > 0 THEN e + 1 + d ELSE e

\* ([0-9]{1,2} [A-Za-z]{3,} [0-9]{4}) at position p: the position after it, 0
\* when it does not match.
DayMonthYearEnd(t, p) ==
    LET d == RunLen(t, p, Digits)
        l == RunLen(t, p + d + 1, Letters)
        y == p + d + 1 + l + 1
    IN  IF /\ d \in {1, 2}
           /\ LitAt(t, p + d, " ")
           /\ l >= 3
           /\ LitAt(t, y - 1, " ")
           /\ RunLen(t, y, Digits) >= 4
        THEN y + 4 ELSE 0

\* r"paid [<rupee>Rs.]*([0-9,]+(?:\.[0-9]+)?) to ([\w &.\-]+) on ([0-9]{1,2} [A-Za-z]{3,} [0-9]{4})"
\* matched at position i.  The merchant capture is greedy: it ends at the last
\* " on <date>" that stands inside its run of characters.
PaidAt(t, i) ==
    IF ~LitAt(t, i, "paid ") THEN NoMatch
    ELSE LET j == i + 5 + RunLen(t, i + 5, CurrencyCharsIC)
             a == AmountEnd(t, j)
         IN  IF a = 0 \/ ~LitAt(t, a, " to ") THEN NoMatch
             ELSE LET m0  == a + 4
                      run == RunLen(t, m0, MerchantChars)
                      ks  == {k \in (m0 + 1)..(m0 + run - 1) :
                                 LitAt(t, k, " on ") /\ DayMonthYearEnd(t, k + 4) > 0}
                 IN  IF ks = {} THEN NoMatch
                     ELSE [ok |-> TRUE,
                           g1 |-> SubSeq(t, j, a - 1),
                           g2 |-> SubSeq(t, m0, Max(ks) - 1),
                           g3 |-> SubSeq(t, Max(ks) + 4,
                                         DayMonthYearEnd(t, Max(ks) + 4) - 1)]

\* ([0-9]{2}-[0-9]{2}-[0-9]{2,4}) at position p: the position after it, 0 when
\* it does not match.  The rest of the pattern is optional, so the year keeps
\* as many digits (up to four) as there are.
NumericDateEnd(t, p) ==
    LET y == RunLen(t, p + 6, Digits)
    IN  IF /\ RunLen(t, p, Digits) >= 2
           /\ LitAt(t, p + 2, "-")
           /\ RunLen(t, p + 3, Digits) >= 2
           /\ LitAt(t, p + 5, "-")
           /\ y >= 2
        THEN p + 6 + (IF y > 4 THEN 4 ELSE y) ELSE 0

\* (?: .*to ([\w &.\-]+))? at position e: the optional merchant capture.  `.`
\* stops at a newline and `.*` is greedy, so the capture follows the last
\* "to " of the line that has a merchant character after it.
ToMerchant(t, e) ==
    IF ~LitAt(t, e, " ") THEN None
    ELSE LET le == e + 1 + RunLen(t, e + 1, CharsOf(t) \ {"\n"})
             ps == {p \in (e + 1)..(le - 1) :
                       LitAt(t, p, "to ") /\ RunLen(t, p + 3, MerchantChars) > 0}
         IN  IF ps = {} THEN None
             ELSE Some(SubSeq(t, Max(ps) + 3,
                              Max(ps) + 2 + RunLen(t, Max(ps) + 3, MerchantChars)))

\* r"debited for [<rupee>Rs.]*([0-9,]+(?:\.[0-9]+)?) on ([0-9]{2}-[0-9]{2}-[0-9]{2,4})(?: .*to ([\w &.\-]+))?"
\* matched at position i; g3 is the optional capture.
DebitedOnAt(t, i) ==
    IF ~LitAt(t, i, "debited for ") THEN NoMatch
    ELSE LET j == i + 12 + RunLen(t, i + 12, CurrencyCharsIC)
             a == AmountEnd(t, j)
         IN  IF a = 0 \/ ~LitAt(t, a, " on ") \/ NumericDateEnd(t, a + 4) = 0 THEN NoMatch
             ELSE [ok |-> TRUE,
                   g1 |-> SubSeq(t, j, a - 1),
                   g2 |-> SubSeq(t, a + 4, NumericDateEnd(t, a + 4) - 1),
                   g3 |-> ToMerchant(t, NumericDateEnd(t, a + 4))]

\* r"DEBITED for [<rupee>Rs.]*([0-9,]+(?:\.[0-9]+)?)" matched at position i.
DebitedAt(t, i) ==
    IF ~LitAt(t, i, "DEBITED for ") THEN NoMatch
    ELSE LET j == i + 12 + RunLen(t, i + 12, CurrencyCharsIC)
             a == AmountEnd(t, j)
         IN  IF a = 0 THEN NoMatch ELSE [ok |-> TRUE, g1 |-> SubSeq(t, j, a - 1)]

\* r"[<rupee>Rs.]*([0-9,]+(?:\.[0-9]+)?)" matched at position i (no re.IGNORECASE).
AmountAt(t, i) ==
    LET j == i + RunLen(t, i, CurrencyChars)
        a == AmountEnd(t, j)
    IN  IF a = 0 THEN NoMatch ELSE [ok |-> TRUE, g1 |-> SubSeq(t, j, a - 1)]

\* The pattern of the named rule matched at position i.
MatchAt(rule, t, i) ==
    CASE rule = "paid"       -> PaidAt(t, i)
      [] rule = "debit_sms"   -> DebitedOnAt(t, i)
      [] rule = "debit_email" -> DebitedAt(t, i)
      [] rule = "amount"      -> AmountAt(t, i)

\* re.search: the match at the leftmost position where the pattern matches.
Search(rule, t) ==
    LET hits == {i \in 1..Len(t) : MatchAt(rule, t, i).ok}
    IN  IF hits = {} THEN NoMatch ELSE MatchAt(rule, t, Min(hits))

-----------------------------------------------------------------------------
(* Conversions of parse_transaction *)

\* str.replace(c, '')
RECURSIVE RemoveChar(_, _)
RemoveChar(s, c) ==
    IF s = "" THEN ""
    ELSE (IF Head(s) = c THEN "" ELSE Head(s)) \o RemoveChar(Tail(s), c)

\* The number a string of decimal digits denotes (0 for the empty string).
RECURSIVE DigitsValue(_)
DigitsValue(s) ==
    IF s = "" THEN 0
    ELSE 10 * DigitsValue(SubSeq(s, 1, Len(s) - 1))
         + (AlphaIndex(Char(s, Len(s)), DigitChars) - 1)

\* A digit string without its trailing zeros.
RECURSIVE TrimZeros(_)
TrimZeros(s) ==
    IF s # "" /\ Char(s, Len(s)) = "0" THEN TrimZeros(SubSeq(s, 1, Len(s) - 1)) ELSE s

\* float(s) for s made of digits and at most one ".": a ValueError (ok is
\* FALSE) when s has no digit, else the decimal number whole.frac, frac kept
\* without trailing zeros so that 250.00 and 250 are one value.
Float(whole, frac) == [ok |-> TRUE, whole |-> whole, frac |-> frac]
ValueError == [ok |-> FALSE]

\* A plausible slip: a lenient conversion that reads the digit-free token as 0.
float_lenient(s) ==
    LET w == RunLen(s, 1, Digits)
    IN  Float(DigitsValue(SubSeq(s, 1, w)), TrimZeros(SubSeq(s, w + 2, Len(s))))

float(s) ==
    LET w == RunLen(s, 1, Digits)
    IN  IF CharsOf(s) \cap Digits = {} THEN ValueError
        ELSE Float(DigitsValue(SubSeq(s, 1, w)), TrimZeros(SubSeq(s, w + 2, Len(s))))

\* The same decimal numbers, for stating what an amount is.
IsAmount(a) == a.ok /\ a.whole \in Nat /\ CharsOf(a.frac) \subseteq Digits

\* datetime.utcnow().date(): the day of the call, as the clock gives it.
utcnow_date == [year |-> 2026, month |-> 11, day |-> 3]

month_abbr ==
    <<"jan", "feb", "mar", "apr", "may", "jun", "jul", "aug", "sep", "oct", "nov", "dec">>

IsLeap(y) == (y % 4 = 0 /\ y % 100 # 0) \/ y % 400 = 0

DaysInMonth(y, m) ==
    IF m = 2 THEN (IF IsLeap(y) THEN 29 ELSE 28)
    ELSE IF m \in {4, 6, 9, 11} THEN 30 ELSE 31

\* datetime.date(y, m, d): a ValueError outside the calendar.
Date(y, m, d) ==
    IF y >= 1 /\ m \in 1..12 /\ d >= 1 /\ d <= DaysInMonth(y, m)
    THEN [ok |-> TRUE, date |-> [year |-> y, month |-> m, day |-> d]]
    ELSE ValueError

\* datetime.strptime(s, "%d %b %Y").date() for s = "<1-2 digits> <letters> <4 digits>".
\* %b takes a three-letter month name, so a longer run of letters fails.
strptime_d_b_Y(s) ==
    LET d   == RunLen(s, 1, Digits)
        l   == RunLen(s, d + 2, Letters)
        mon == Lower(SubSeq(s, d + 2, d + 1 + l))
        ms  == {m \in 1..12 : month_abbr[m] = mon}
    IN  IF ms = {} THEN ValueError
        ELSE Date(DigitsValue(SubSeq(s, d + l + 3, d + l + 6)),
                  CHOOSE m \in ms : TRUE,
                  DigitsValue(SubSeq(s, 1, d)))

\* The year %y denotes: 69-99 are 1969-1999, 00-68 are 2000-2068.
TwoDigitYear(yy) == IF yy >= 69 THEN 1900 + yy ELSE 2000 + yy

\* datetime.strptime(s, "%d-%m-%Y").date() for s = "DD-MM-<2-4 digits>".
strptime_d_m_Y(s) ==
    IF Len(s) # 10 THEN ValueError
    ELSE Date(DigitsValue(SubSeq(s, 7, 10)), DigitsValue(SubSeq(s, 4, 5)),
              DigitsValue(SubSeq(s, 1, 2)))

\* datetime.strptime(s, "%d-%m-%y").date() for s = "DD-MM-<2-4 digits>".
strptime_d_m_y(s) ==
    IF Len(s) # 8 THEN ValueError
    ELSE Date(TwoDigitYear(DigitsValue(SubSeq(s, 7, 8))), DigitsValue(SubSeq(s, 4, 5)),
              DigitsValue(SubSeq(s, 1, 2)))

-----------------------------------------------------------------------------
(* parse_transaction and categorize_transaction *)

Success(amount, date, merchant, note, verdict, category) ==
    [status |-> "success", amount |-> amount, date |-> date, merchant |-> merchant,
     note |-> note, is_bank |-> verdict.is_bank, confidence |-> verdict.confidence,
     suggested_category |-> category]

Error(message) == [status |-> "error", message |-> message]

\* The handler's `except Exception as e` around float(''), the one exception
\* the body can raise on a string.
ParserError == Error("Parser error: could not convert string to float: ''")

\* The branch of the GPay-style pattern, m its match.
paid_result(t, m) ==
    LET amount   == float(RemoveChar(m.g1, ","))
        merchant == Strip(m.g2)
        d        == strptime_d_b_Y(m.g3)
        dt       == IF d.ok THEN d.date ELSE utcnow_date
    IN  IF ~amount.ok THEN ParserError
        ELSE Success(amount, dt, merchant, t, Verdict(TRUE, 90),
                     get_category_from_merchant(merchant))

\* A plausible slip: the category of the empty merchant looked up like any other.
debit_sms_result_lookup_always(t, s, m) ==
    LET amount   == float(RemoveChar(m.g1, ","))
        merchant == Strip(OrEmpty(m.g3))
        dY       == strptime_d_m_Y(m.g2)
        dy       == strptime_d_m_y(m.g2)
        parsed_date == IF dY.ok THEN dY.date ELSE IF dy.ok THEN dy.date ELSE utcnow_date
    IN  IF ~amount.ok THEN ParserError
        ELSE Success(amount, parsed_date, IF merchant # "" THEN merchant ELSE "Bank", t,
                     detect_bank_sender(Some(s)), get_category_from_merchant(merchant))

\* The branch of the bank SMS pattern, m its match and s the stripped sender.
debit_sms_result(t, s, m) ==
    LET amount   == float(RemoveChar(m.g1, ","))
        merchant == Strip(OrEmpty(m.g3))
        dY       == strptime_d_m_Y(m.g2)
        dy       == strptime_d_m_y(m.g2)
        parsed_date == IF dY.ok THEN dY.date ELSE IF dy.ok THEN dy.date ELSE utcnow_date
    IN  IF ~amount.ok THEN ParserError
        ELSE Success(amount, parsed_date, IF merchant # "" THEN merchant ELSE "Bank", t,
                     detect_bank_sender(Some(s)),
                     IF merchant # "" THEN get_category_from_merchant(merchant)
                     ELSE "Bills & Utilities")

\* The branch of the email-style pattern.
debit_email_result(t, s, m) ==
    LET amount == float(RemoveChar(m.g1, ","))
    IN  IF ~amount.ok THEN ParserError
        ELSE Success(amount, utcnow_date, "Bank", t, detect_bank_sender(Some(s)),
                     "Bills & Utilities")

\* A plausible slip: the conversion error swallowed, and the result returned
\* without its amount.
fallback_result_partial(t, s, m) ==
    LET amount == float(RemoveChar(m.g1, ","))
        v      == detect_bank_sender(Some(s))
    IN  IF ~amount.ok
        THEN [status |-> "success", date |-> utcnow_date, merchant |-> "Unknown", note |-> t,
              is_bank |-> v.is_bank, confidence |-> v.confidence,
              suggested_category |-> "Other"]
        ELSE Success(amount, utcnow_date, "Unknown", t, v, "Other")

\* The branch of the fallback pattern.
fallback_result(t, s, m) ==
    LET amount == float(RemoveChar(m.g1, ","))
    IN  IF ~amount.ok THEN ParserError
        ELSE Success(amount, utcnow_date, "Unknown", t, detect_bank_sender(Some(s)), "Other")

parse_transaction(txt, sndr) ==
    LET t  == txt
        s  == Strip(OrEmpty(sndr))
        m1 == Search("paid", t)
        m2 == Search("debit_sms", t)
        m3 == Search("debit_email", t)
        m4 == Search("amount", t)
    IN  IF m1.ok THEN paid_result(t, m1)
        ELSE IF m2.ok THEN debit_sms_result(t, s, m2)
        ELSE IF m3.ok THEN debit_email_result(t, s, m3)
        ELSE IF m4.ok THEN fallback_result(t, s, m4)
        ELSE Error("Could not parse transaction")

\* What categorize_transaction returns, parsed being the parser's result.
categorize_result(p) ==
    IF p.status = "success"
    THEN [status |-> "success", suggested_category |-> p.suggested_category,
          confidence |-> p.confidence]
    ELSE Error("Could not categorize")

\* A plausible slip: the parser's own failure handed on.
categorize_transaction_propagating(txt, sndr) ==
    IF categorize_result(parse_transaction(txt, sndr)).status = "success"
    THEN categorize_result(parse_transaction(txt, sndr))
    ELSE parse_transaction(txt, sndr)

categorize_transaction(txt, sndr) == categorize_result(parse_transaction(txt, sndr))

-----------------------------------------------------------------------------
(* Inputs *)

MaxSenderLen == 4
MaxRun       == 16
MaxWords     == 3

RECURSIVE Repeat(_, _)
Repeat(c, n) == IF n = 0 THEN "" ELSE c \o Repeat(c, n - 1)

\* The strings of exactly n characters of the set cs.
RECURSIVE StringsOfLen(_, _)
StringsOfLen(cs, n) ==
    IF n = 0 THEN {""} ELSE {c \o w : c \in cs, w \in StringsOfLen(cs, n - 1)}

\* The concatenations of at most n words of the set ws.
RECURSIVE Phrases(_, _)
Phrases(ws, n) ==
    IF n = 0 THEN {""} ELSE {""} \cup {w \o p : w \in ws, p \in Phrases(ws, n - 1)}

\* Senders: every short string over a few characters that spell a keyword
\* (BNK), a letters-only and a digits-only shape in both cases; runs of one
\* character around the {3,15} and {3,6} limits; and some real sender ids.
SenderChars == {"B", "n", "K", "7", "-", "\n"}

SenderStrings ==
    UNION {StringsOfLen(SenderChars, n) : n \in 0..MaxSenderLen}
    \cup {Repeat(c, n) \o e : c \in {"A", "z", "7"}, n \in 1..MaxRun, e \in {"", "\n", "\n\n"}}
    \cup {"HDFCBK", "VM-HDFCBK", "SBI", "paytm", "JIO", "Airtel", "VK-AIRTEL", "57575",
          "12", "1234567", "+919999999999", " ", " abc "}

Senders == {None} \cup {Some(x) : x \in SenderStrings}

\* Merchants: names put together from words that carry a keyword of each
\* group, in mixed case, and words that carry none.
MerchantWords ==
    {"Uber", "OLA", "Mall", "shop", "Bar", "PVR", "clinic", "Gas", " ", "x"}

Merchants == Phrases(MerchantWords, MaxWords)

\* Texts: an optional lead, verb, amount, payee, date and tail, each in a few
\* forms, so that every pattern matches with and without the ones before it.
TextLead   == {"", "5 ", "hello, ", "DEBITED for Rs.9 "}
TextVerb   == {"", "Paid Rs.", "debited for ", "Debited for " \o Rupee}
TextAmount == {"", "1,234.50", ","}
TextPayee  == {"", " to Uber Store"}
TextDate   == {"", " on 5 Mar 2026", " on 31 Feb 2026", " on 12-01-26", " on 12-01-2026"}
TextTail   == {"", " trf to John Store", " to  ", "\nto Ola"}

Texts ==
    {a \o b \o c \o d \o e \o f :
        a \in TextLead, b \in TextVerb, c \in TextAmount, d \in TextPayee,
        e \in TextDate, f \in TextTail}

TextSenders == {None, Some(" HDFCBK "), Some("abc"), Some("57575")}

-----------------------------------------------------------------------------
(* Specifications *)

NotCalled == [status |-> "not called"]

ParseIdle    == text = "" /\ sender = None /\ parsed = NotCalled /\ categorized = NotCalled
SenderIdle   == snd_in = None /\ snd_out = NotCalled
CategoryIdle == merchant_in = "" /\ category_out = "not called"
StoreIdle    == expenses = <<>> /\ next_id = 1 /\ calls = <<>>
UserIdle     == users = <<>> /\ regs = <<>>

\* One call of parse_transaction and one of categorize_transaction, on any
\* text and sender.
InitParse ==
    /\ text \in Texts
    /\ sender \in TextSenders
    /\ parsed = NotCalled
    /\ categorized = NotCalled
    /\ SenderIdle /\ CategoryIdle /\ StoreIdle /\ UserIdle

ParseTransaction ==
    /\ parsed = NotCalled
    /\ parsed' = parse_transaction(text, sender)
    /\ UNCHANGED <<text, sender, categorized, senderVars, categoryVars, storeVars, userVars>>

CategorizeTransaction ==
    /\ categorized = NotCalled
    /\ categorized' = categorize_transaction(text, sender)
    /\ UNCHANGED <<text, sender, parsed, senderVars, categoryVars, storeVars, userVars>>

NextParse == ParseTransaction \/ CategorizeTransaction

SpecParse == InitParse /\ [][NextParse]_vars

\* One call of detect_bank_sender on any sender.
InitSender ==
    /\ snd_in \in Senders
    /\ snd_out = NotCalled
    /\ ParseIdle /\ CategoryIdle /\ StoreIdle /\ UserIdle

DetectBankSender ==
    /\ snd_out = NotCalled
    /\ snd_out' = detect_bank_sender(snd_in)
    /\ UNCHANGED <<snd_in, parseVars, categoryVars, storeVars, userVars>>

NextSender == DetectBankSender

SpecSender == InitSender /\ [][NextSender]_vars

\* One call of get_category_from_merchant on any merchant.
InitCategory ==
    /\ merchant_in \in Merchants
    /\ category_out = "not called"
    /\ ParseIdle /\ SenderIdle /\ StoreIdle /\ UserIdle

GetCategoryFromMerchant ==
    /\ category_out = "not called"
    /\ category_out' = get_category_from_merchant(merchant_in)
    /\ UNCHANGED <<merchant_in, parseVars, senderVars, storeVars, userVars>>

NextCategory == GetCategoryFromMerchant

SpecCategory == InitCategory /\ [][NextCategory]_vars

-----------------------------------------------------------------------------
(* The expense store: add_expense, update_expense, delete_expense *)

MaxCalls    == 3
MaxExpenses == 1

\* str(result.inserted_id): the n-th ObjectId the store hands out, as text.
IdString(n) == Char(DigitChars, n + 1)

\* bson.ObjectId(s): the id a well-formed text denotes, an exception otherwise.
ObjectId(s) ==
    IF \E n \in 1..9 : IdString(n) = s
    THEN [ok |-> TRUE, id |-> CHOOSE n \in 1..9 : IdString(n) = s]
    ELSE [ok |-> FALSE]

PhoneArgs     == {"", " 98", "77"}
ExpenseIdArgs == {"x"} \cup {IdString(n) : n \in 1..MaxExpenses}
\* <<category, subcategory, note>> given to update_expense
UpdateArgs    == {<<"Shopping", "weekly", "">>}

Call(op, args, pc, result) == [op |-> op, args |-> args, pc |-> pc, result |-> result]

Running == [status |-> "running"]

\* calls with its c-th entry at position pc, and returned with result when pc is "done".
Moved(c, pc, result) == [calls EXCEPT ![c].pc = pc, ![c].result = result]

\* The ownership test of delete_expense and update_expense.
\* A plausible slip: the test only asks that the record carries a phone.
OwnsExpense_any_phone(expense, phone) == expense.phone # ""

OwnsExpense(expense, phone) == expense.phone = Strip(phone)

\* add_expense up to its await: the phone is checked and the document built.
AddExpenseStart(phone, date, amount, category, subcategory, note) ==
    /\ Len(calls) < MaxCalls
    /\ Cardinality({c \in DOMAIN calls : calls[c].op = "add_expense"}) < MaxExpenses
    /\ calls' = Append(calls,
          IF phone = ""
          THEN Call("add_expense", [phone |-> phone], "done",
                    Error("Phone number is required."))
          ELSE Call("add_expense",
                    [phone |-> phone,
                     doc |-> [phone |-> Strip(phone), date |-> date, amount |-> amount,
                              category |-> category, subcategory |-> subcategory,
                              note |-> note]],
                    "insert", Running))
    /\ UNCHANGED <<expenses, next_id, parseVars, senderVars, categoryVars, userVars>>

\* mongo_expenses.insert_one(doc) and the return of add_expense.
AddExpenseInsert(c) ==
    /\ calls[c].op = "add_expense" /\ calls[c].pc = "insert"
    /\ expenses' = [i \in DOMAIN expenses \cup {next_id} |->
                       IF i = next_id THEN calls[c].args.doc ELSE expenses[i]]
    /\ next_id' = next_id + 1
    /\ calls' = Moved(c, "done",
          [status |-> "success", id |-> IdString(next_id),
           message |-> "Expense added successfully!"])
    /\ UNCHANGED <<parseVars, senderVars, categoryVars, userVars>>

\* delete_expense and update_expense up to their first await: the arguments
\* are checked and the id converted.  The value is the call as it then stands.
OwnedCallStart(op, args, failed) ==
    IF args.expense_id = "" \/ args.phone = ""
    THEN Call(op, args, "done", Error("Expense ID and phone are required."))
    ELSE IF ~ObjectId(args.expense_id).ok
    THEN Call(op, args, "done", Error(failed))
    ELSE Call(op, args, "find", Running)

DeleteExpenseStart(expense_id, phone) ==
    /\ Len(calls) < MaxCalls
    /\ calls' = Append(calls,
          OwnedCallStart("delete_expense", [expense_id |-> expense_id, phone |-> phone],
                         "Delete failed: invalid ObjectId"))
    /\ UNCHANGED <<expenses, next_id, parseVars, senderVars, categoryVars, userVars>>

UpdateExpenseStart(expense_id, phone, category, subcategory, note) ==
    /\ Len(calls) < MaxCalls
    /\ calls' = Append(calls,
          OwnedCallStart("update_expense",
                         [expense_id |-> expense_id, phone |-> phone, category |-> category,
                          subcategory |-> subcategory, note |-> note],
                         "Update failed: invalid ObjectId"))
    /\ UNCHANGED <<expenses, next_id, parseVars, senderVars, categoryVars, userVars>>

\* mongo_expenses.find_one({"_id": ...}) and the ownership test on what it found.
OwnedCallFind(c, op, notYours) ==
    /\ calls[c].op = op /\ calls[c].pc = "find"
    /\ LET id == ObjectId(calls[c].args.expense_id).id
       IN  calls' =
             IF id \notin DOMAIN expenses
             THEN Moved(c, "done", Error("Expense not found."))
             ELSE IF ~OwnsExpense(expenses[id], calls[c].args.phone)
             THEN Moved(c, "done", Error(notYours))
             ELSE Moved(c, "write", Running)
    /\ UNCHANGED <<expenses, next_id, parseVars, senderVars, categoryVars, userVars>>

DeleteExpenseFind(c) ==
    OwnedCallFind(c, "delete_expense", "You can only delete your own expenses.")

UpdateExpenseFind(c) ==
    OwnedCallFind(c, "update_expense", "You can only update your own expenses.")

\* mongo_expenses.delete_one({"_id": ...}) and the return of delete_expense.
DeleteExpenseWrite(c) ==
    /\ calls[c].op = "delete_expense" /\ calls[c].pc = "write"
    /\ LET id == ObjectId(calls[c].args.expense_id).id
       IN  IF id \in DOMAIN expenses
           THEN /\ expenses' = [i \in DOMAIN expenses \ {id} |-> expenses[i]]
                /\ calls' = Moved(c, "done",
                      [status |-> "success", deleted |-> 1,
                       message |-> "Expense deleted successfully!"])
           ELSE /\ expenses' = expenses
                /\ calls' = Moved(c, "done", Error("Failed to delete expense."))
    /\ UNCHANGED <<next_id, parseVars, senderVars, categoryVars, userVars>>

\* mongo_expenses.update_one({"_id": ...}, {"$set": ...}) and the return of
\* update_expense; modified_count is 1 when a record matched and changed.
UpdateExpenseWrite(c) ==
    /\ calls[c].op = "update_expense" /\ calls[c].pc = "write"
    /\ LET id  == ObjectId(calls[c].args.expense_id).id
           set == IF id \in DOMAIN expenses
                  THEN [expenses[id] EXCEPT !.category = calls[c].args.category,
                                            !.subcategory = calls[c].args.subcategory,
                                            !.note = calls[c].args.note]
                  ELSE <<>>
       IN  IF id \in DOMAIN expenses /\ set # expenses[id]
           THEN /\ expenses' = [expenses EXCEPT ![id] = set]
                /\ calls' = Moved(c, "done",
                      [status |-> "success", updated |-> 1,
                       message |-> "Expense updated successfully!"])
           ELSE /\ expenses' = expenses
                /\ calls' = Moved(c, "done",
                      [status |-> "success", updated |-> 0, message |-> "No changes made."])
    /\ UNCHANGED <<next_id, parseVars, senderVars, categoryVars, userVars>>

InitStore ==
    /\ expenses = <<>>
    /\ next_id = 1
    /\ calls = <<>>
    /\ ParseIdle /\ SenderIdle /\ CategoryIdle /\ UserIdle

NextStore ==
    \/ \E phone \in PhoneArgs :
          AddExpenseStart(phone, "2026-01-12", 250, "Other", "", "")
    \/ \E expense_id \in ExpenseIdArgs, phone \in PhoneArgs :
          DeleteExpenseStart(expense_id, phone)
    \/ \E expense_id \in ExpenseIdArgs, phone \in PhoneArgs, u \in UpdateArgs :
          UpdateExpenseStart(expense_id, phone, u[1], u[2], u[3])
    \/ \E c \in DOMAIN calls :
          \/ AddExpenseInsert(c)
          \/ DeleteExpenseFind(c)
          \/ DeleteExpenseWrite(c)
          \/ UpdateExpenseFind(c)
          \/ UpdateExpenseWrite(c)

SpecStore == InitStore /\ [][NextStore]_vars

-----------------------------------------------------------------------------
(* The user store: register_user *)

MaxRegs == 3

MinPhoneLen    == 10
MinPasswordLen == 4

RegPhones    == {"9999999999", " 9999999999", "8888888888", "12345", ""}
RegPasswords == {"abcd", "ab"}

\* register_user up to its first await: both arguments are checked.
RegisterUserStart(phone, password) ==
    /\ Len(regs) < MaxRegs
    /\ regs' = Append(regs,
          IF phone = "" \/ Len(Strip(phone)) < MinPhoneLen
          THEN Call("register_user", [phone |-> phone, password |-> password], "done",
                    Error("Please enter a valid phone number (at least 10 digits)."))
          ELSE IF password = "" \/ Len(Strip(password)) < MinPasswordLen
          THEN Call("register_user", [phone |-> phone, password |-> password], "done",
                    Error("Password must be at least 4 characters."))
          ELSE Call("register_user",
                    [phone |-> Strip(phone), password |-> Strip(password)], "find", Running))
    /\ UNCHANGED <<users, parseVars, senderVars, categoryVars, storeVars>>

\* mongo_users.find_one({"phone": phone}) and the test of what it found.
RegisterUserFind(r) ==
    /\ regs[r].pc = "find"
    /\ regs' = [regs EXCEPT ![r] =
          IF \E u \in DOMAIN users : users[u].phone = regs[r].args.phone
          THEN Call("register_user", regs[r].args, "done",
                    Error("Phone number already registered. Please login."))
          ELSE Call("register_user", regs[r].args, "insert", Running)]
    /\ UNCHANGED <<users, parseVars, senderVars, categoryVars, storeVars>>

\* mongo_users.insert_one(doc) and the return of register_user.
RegisterUserInsert(r) ==
    /\ regs[r].pc = "insert"
    /\ users' = Append(users, [phone |-> regs[r].args.phone,
                               password |-> regs[r].args.password])
    /\ regs' = [regs EXCEPT ![r] =
          Call("register_user", regs[r].args, "done",
               [status |-> "success", user_id |-> IdString(Len(users) + 1),
                message |-> "Registration successful!"])]
    /\ UNCHANGED <<parseVars, senderVars, categoryVars, storeVars>>

InitUsers ==
    /\ users = <<>>
    /\ regs = <<>>
    /\ ParseIdle /\ SenderIdle /\ CategoryIdle /\ StoreIdle

NextUsers ==
    \/ \E phone \in RegPhones, password \in RegPasswords : RegisterUserStart(phone, password)
    \/ \E r \in DOMAIN regs : RegisterUserFind(r) \/ RegisterUserInsert(r)

SpecUsers == InitUsers /\ [][NextUsers]_vars

-----------------------------------------------------------------------------
(* Properties of the parser *)

ParseReturned      == parsed # NotCalled
CategorizeReturned == categorized # NotCalled

\* The matches of the four patterns on the text of the call.
M1 == Search("paid", text)
M2 == Search("debit_sms", text)
M3 == Search("debit_email", text)
M4 == Search("amount", text)

\* The captured amount token has a digit left once its commas are removed.
Convertible(token) == CharsOf(token) \cap Digits # {}

ResultFields ==
    {"amount", "date", "merchant", "is_bank", "confidence", "suggested_category"}

\* C1: whenever the text matches the payment-confirmation pattern, the result
\* is that rule's: a success with is_bank = true and confidence = 0.9, for every
\* sender and whatever later patterns the text matches too.
C1_PaidRuleDecides ==
    (ParseReturned /\ M1.ok) =>
        /\ parsed.status = "success"
        /\ parsed.is_bank = TRUE
        /\ parsed.confidence = 90

\* C2: a text whose debit-notification capture does not convert to a number,
\* and that has a valid bare amount, yields the success result of the
\* bare-amount rule: the malformed capture makes its rule a non-match.
C2_MalformedAmountCascades ==
    (/\ ParseReturned
     /\ ~M1.ok /\ ~M2.ok
     /\ M3.ok /\ ~Convertible(M3.g1)
     /\ M4.ok /\ Convertible(M4.g1)) =>
        /\ parsed.status = "success"
        /\ parsed.merchant = "Unknown"

\* C3 as stated: when parse_transaction fails, categorize_transaction on the
\* same inputs fails with the same message.
C3_SameMessage ==
    (ParseReturned /\ CategorizeReturned /\ parsed.status = "error") =>
        /\ categorized.status = "error"
        /\ categorized.message = parsed.message

\* C3, amended: when parse_transaction fails, categorize_transaction on the
\* same inputs fails with the message "Could not categorize", whatever the
\* parser's message was.
C3_FixedMessage ==
    (ParseReturned /\ CategorizeReturned /\ parsed.status = "error") =>
        /\ categorized.status = "error"
        /\ DOMAIN categorized = {"status", "message"}
        /\ categorized.message = "Could not categorize"

\* Both calls have failed, on a text the parser aborts on and on one no
\* pattern matches.
C3_Witness ==
    /\ ParseReturned /\ CategorizeReturned
    /\ parsed = ParserError
    /\ categorized.status = "error"

\* The bank-debit SMS rule is the first whose pattern matches.
DebitSmsWins == ~M1.ok /\ M2.ok

\* The trimmed merchant capture of the bank-debit SMS pattern, empty when the
\* "to <merchant>" part is absent.
DebitSmsMerchant == Strip(OrEmpty(M2.g3))

\* C4 as stated: when the bank-debit SMS rule wins, merchant is the trimmed
\* capture, or the empty string when there is none; suggested_category is the
\* Category Suggester's result on a non-empty merchant, else "Bills & Utilities".
C4_MerchantOrEmpty ==
    (ParseReturned /\ DebitSmsWins /\ parsed.status = "success") =>
        /\ parsed.merchant = DebitSmsMerchant
        /\ parsed.suggested_category =
              (IF DebitSmsMerchant # "" THEN get_category_from_merchant(DebitSmsMerchant)
               ELSE "Bills & Utilities")

\* C4, amended: when the bank-debit SMS rule wins, the result is the parser
\* error if the amount capture has no digit, and else a success whose merchant
\* is the trimmed capture, or "Bank" when the capture is absent or trims to
\* nothing, and whose suggested_category is the Category Suggester's result on
\* the trimmed capture when it is non-empty, else "Bills & Utilities".
C4_MerchantOrBank ==
    (ParseReturned /\ DebitSmsWins) =>
        IF ~Convertible(M2.g1) THEN parsed = ParserError
        ELSE /\ parsed.status = "success"
             /\ parsed.merchant = (IF DebitSmsMerchant # "" THEN DebitSmsMerchant ELSE "Bank")
             /\ parsed.suggested_category =
                   (IF DebitSmsMerchant # ""
                    THEN get_category_from_merchant(DebitSmsMerchant)
                    ELSE "Bills & Utilities")

\* The bank-debit SMS rule has won on a text whose merchant capture trims to
\* nothing.
C4_Witness ==
    /\ ParseReturned /\ DebitSmsWins
    /\ M2.g3 # None /\ DebitSmsMerchant = ""
    /\ parsed.status = "success" /\ parsed.merchant = "Bank"

\* C6: on a text without a digit, for every sender, parse_transaction returns
\* a failure that carries none of the result fields; also when the text has
\* commas or currency markers.
C6_NoDigitFails ==
    (ParseReturned /\ CharsOf(text) \cap Digits = {}) =>
        /\ parsed.status = "error"
        /\ DOMAIN parsed \cap ResultFields = {}

\* A digit-free text with a comma, which the bare-amount pattern matches.
C6_Witness ==
    /\ ParseReturned
    /\ CharsOf(text) \cap Digits = {}
    /\ "," \in CharsOf(text)
    /\ M4.ok
    /\ parsed.status = "error"

\* C8: every call returns one of two shapes: a success with all of amount
\* (non-negative), date, merchant, note (the text), is_bank, confidence (in
\* [0,1]) and suggested_category (of the category set); or a failure with a
\* message and none of those.
C8_WellFormed ==
    ParseReturned =>
        \/ /\ parsed.status = "success"
           /\ DOMAIN parsed = ResultFields \cup {"status", "note"}
           /\ IsAmount(parsed.amount)
           /\ DOMAIN parsed.date = {"year", "month", "day"}
           /\ parsed.note = text
           /\ parsed.is_bank \in BOOLEAN
           /\ parsed.confidence \in 0..100
           /\ parsed.suggested_category \in default_categories
        \/ /\ parsed.status = "error"
           /\ DOMAIN parsed = {"status", "message"}

\* A success of the bank-debit SMS rule with a keyword sender.
C8_Witness ==
    /\ ParseReturned /\ DebitSmsWins
    /\ parsed.status = "success"
    /\ parsed.confidence = 95
    /\ parsed.suggested_category = "Shopping"

-----------------------------------------------------------------------------
(* Properties of the Sender Classifier and the Category Suggester *)

\* s without its final newline, if it has one.
Chomp(s) == IF s # "" /\ Char(s, Len(s)) = "\n" THEN SubSeq(s, 1, Len(s) - 1) ELSE s

HasKeyword(s) == \E k \in 1..Len(bank_keywords) : Contains(Upper(s), bank_keywords[k])

\* s is lo to hi characters of cls and nothing else.
MadeOf(s, cls, lo, hi) == Len(s) \in lo..hi /\ CharsOf(s) \subseteq cls

\* C5 as stated: empty or absent -> (false, 0.3); else a keyword in the
\* case-normalized sender -> (true, 0.95); else 3-15 uppercase letters ->
\* (true, 0.9); else 3-6 digits -> (true, 0.8); every other sender, one of
\* lowercase letters only too -> (false, 0.3).
C5_TableAsStated ==
    snd_out # NotCalled =>
        snd_out =
            IF snd_in = None \/ snd_in = Some("") THEN Verdict(FALSE, 30)
            ELSE IF HasKeyword(snd_in[1]) THEN Verdict(TRUE, 95)
            ELSE IF MadeOf(snd_in[1], UpperLetters, 3, 15) THEN Verdict(TRUE, 90)
            ELSE IF MadeOf(snd_in[1], Digits, 3, 6) THEN Verdict(TRUE, 80)
            ELSE Verdict(FALSE, 30)

\* C5, amended: the two shapes are tested on the case-normalized sender, with
\* one final newline allowed: empty or absent -> (false, 0.3); else a keyword
\* in the case-normalized sender -> (true, 0.95); else 3-15 letters of either
\* case -> (true, 0.9); else 3-6 digits -> (true, 0.8); else (false, 0.3).
C5_TableNormalized ==
    snd_out # NotCalled =>
        snd_out =
            IF snd_in = None \/ snd_in = Some("") THEN Verdict(FALSE, 30)
            ELSE IF HasKeyword(snd_in[1]) THEN Verdict(TRUE, 95)
            ELSE IF MadeOf(Chomp(snd_in[1]), Letters, 3, 15) THEN Verdict(TRUE, 90)
            ELSE IF MadeOf(Chomp(snd_in[1]), Digits, 3, 6) THEN Verdict(TRUE, 80)
            ELSE Verdict(FALSE, 30)

\* A sender that has a keyword and the letters-only shape has been classified.
C5_Witness ==
    /\ snd_in # None
    /\ HasKeyword(snd_in[1])
    /\ MadeOf(snd_in[1], Letters, 3, 15)
    /\ snd_out = Verdict(TRUE, 95)

\* The categories in the order the groups are tested.
GroupOrder ==
    <<"Transportation", "Food & Dining", "Shopping", "Entertainment", "Healthcare",
      "Bills & Utilities">>

\* The positions in GroupOrder of the groups with a keyword in the lowercased
\* merchant m.
GroupHits(m) ==
    {i \in 1..Len(GroupOrder) :
        \E g \in 1..Len(CategoryGroups) :
            /\ CategoryGroups[g].category = GroupOrder[i]
            /\ AnyKeyword(Lower(m), g)}

\* C7: the category is that of the first group, in the order Transportation,
\* Food & Dining, Shopping, Entertainment, Healthcare, Bills & Utilities, with
\* a keyword in the lowercased merchant; "Other" for the empty merchant and
\* when no group has one.
C7_FirstGroupWins ==
    category_out # "not called" =>
        category_out =
            IF merchant_in = "" \/ GroupHits(merchant_in) = {} THEN "Other"
            ELSE GroupOrder[Min(GroupHits(merchant_in))]

\* A merchant with a Shopping keyword before a Transportation keyword, in
\* mixed case, has been categorized.
C7_Witness ==
    /\ category_out = "Transportation"
    /\ {1, 3} \subseteq GroupHits(merchant_in)
    /\ merchant_in # Lower(merchant_in)
    /\ GroupHits(SubSeq(merchant_in, 1, 4)) = {3}

-----------------------------------------------------------------------------
(* Properties of the stores *)

OwnedOps == {"delete_expense", "update_expense"}

\* The stripped phones that add_expense calls stored under the id that s denotes.
Owners(s) ==
    {Strip(calls[a].args.phone) :
        a \in {c \in DOMAIN calls : /\ calls[c].op = "add_expense"
                                    /\ calls[c].pc = "done"
                                    /\ calls[c].result.status = "success"
                                    /\ calls[c].result.id = s}}

\* A delete_expense or update_expense call whose stripped phone is not the
\* phone of the record it names has returned only errors.
OthersGetErrors ==
    \A c \in DOMAIN calls :
        (/\ calls[c].op \in OwnedOps
         /\ calls[c].pc = "done"
         /\ Strip(calls[c].args.phone) \notin Owners(calls[c].args.expense_id)) =>
            calls[c].result.status = "error"

\* A step that removes a record, or changes it, is a step of a delete_expense
\* or update_expense call that names the record and whose stripped phone is the
\* record's; the phone, date and amount of a record that stays do not change.
OnlyOwnerWrites ==
    \A id \in DOMAIN expenses :
        (id \notin DOMAIN expenses' \/ expenses'[id] # expenses[id]) =>
            /\ \E c \in DOMAIN calls :
                  /\ calls'[c] # calls[c]
                  /\ calls[c].op \in OwnedOps
                  /\ ObjectId(calls[c].args.expense_id) = [ok |-> TRUE, id |-> id]
                  /\ Strip(calls[c].args.phone) = expenses[id].phone
            /\ id \in DOMAIN expenses' =>
                  /\ expenses'[id].phone = expenses[id].phone
                  /\ expenses'[id].date = expenses[id].date
                  /\ expenses'[id].amount = expenses[id].amount

\* A step of a call whose stripped phone is not the phone of the record it
\* names leaves the store as it is.
OthersChangeNothing ==
    \A c \in DOMAIN calls :
        (/\ calls'[c] # calls[c]
         /\ calls[c].op \in OwnedOps
         /\ Strip(calls[c].args.phone) \notin Owners(calls[c].args.expense_id)) =>
            expenses' = expenses

\* C9: under every interleaving of add_expense, update_expense and
\* delete_expense calls, a record is removed or changed only by a call whose
\* stripped phone is the record's phone; a call with another phone returns an
\* error and leaves the store unchanged.
C9_OwnerOnly == []OthersGetErrors /\ [][OnlyOwnerWrites /\ OthersChangeNothing]_vars

\* A record has been deleted by its owner, and a call with another phone that
\* found the record has been refused.
C9_Witness ==
    /\ next_id > 1 /\ DOMAIN expenses = {}
    /\ \E c \in DOMAIN calls :
          /\ calls[c].op = "delete_expense" /\ calls[c].pc = "done"
          /\ calls[c].result.status = "success"
    /\ \E c \in DOMAIN calls :
          /\ calls[c].op \in OwnedOps /\ calls[c].pc = "done"
          /\ calls[c].result.message \in {"You can only delete your own expenses.",
                                          "You can only update your own expenses."}

\* C10: the user store holds at most one record per phone number, and at most
\* one register_user call per phone number has returned success, however the
\* calls interleave.
C10_OneUserPerPhone ==
    /\ \A u, v \in DOMAIN users : users[u].phone = users[v].phone => u = v
    /\ \A q, r \in DOMAIN regs :
          (/\ regs[q].pc = "done" /\ regs[q].result.status = "success"
           /\ regs[r].pc = "done" /\ regs[r].result.status = "success"
           /\ Strip(regs[q].args.phone) = Strip(regs[r].args.phone)) => q = r

====
